---- MODULE Spec2Model ----
(***************************************************************************)
(* Model of prost-amino-derive/src/field/scalar.rs: the scalar field       *)
(* descriptor (Field::new, Field::new_oneof), the default resolver         *)
(* (DefaultValue::new, DefaultValue::from_lit) and the emitted field       *)
(* operations (encode, merge, encoded_len).                                *)
(***************************************************************************)
EXTENDS Integers, Sequences, FiniteSets, TLC

\* --------------------------------------------------------------- bounds
\* Largest tag number an annotation or the caller supplies.
MaxTag == 2
\* Most unknown annotations collected by one call of Field::new.
MaxUnknown == 2
\* Longest repeated value handed to the emitted operations.
MaxItems == 2

\* The longest run of digits tried as a number text beside the limits.
MaxDigits == 2

\* ------------------------------------------------------- Option<T>
\* Option<T> is a sequence of length at most one.
None == << >>

Some(x) == << x >>

IsSome(o) == Len(o) > 0

Unwrap(o) == o[1]

\* ------------------------------------------------------------ errors
\* Result<T, Error>: ok with a value, or an error message.
Ok(v) == [ok |-> TRUE, val |-> v, err |-> ""]

Err(msg) == [ok |-> FALSE, val |-> None, err |-> msg]

\* ------------------------------------------------------------ syn::Lit
\* A literal: its kind, its text as a sequence of tokens and its suffix.
Lit(kind, body, suffix) == [kind |-> kind, body |-> body, suffix |-> suffix]

NoLit == Lit("None", << >>, "")

\* ----------------------------------------------------------- syn::Meta
\* Meta::Path(path), Meta::NameValue(path, lit), Meta::List(path, nested).
MetaPath(p) == [form |-> "Path", path |-> p, lit |-> NoLit, nested |-> << >>]

MetaNameValue(p, l) == [form |-> "NameValue", path |-> p, lit |-> l, nested |-> << >>]

MetaList(p, n) == [form |-> "List", path |-> p, lit |-> NoLit, nested |-> n]

\* ------------------------------------------------------------------ Ty
ScalarNames ==
    {"float", "double", "int32", "int64", "uint32", "uint64", "sint32",
     "sint64", "fixed32", "fixed64", "sfixed32", "sfixed64", "bool",
     "string", "bytes"}

\* Ty::Enumeration(path) for the one enumeration path of the model.
EnumTy == "enumeration"

Ty == ScalarNames \cup {EnumTy}

\* The identifiers that parse as a path inside enumeration(...).
EnumPaths == {"E"}

Ty_from_attr(attr) ==
    IF attr.form = "Path" /\ attr.path \in ScalarNames
      THEN Ok(Some(attr.path))
    ELSE IF attr.form = "NameValue" /\ attr.path = "enumeration"
            /\ attr.lit.kind = "Str"
      THEN IF Len(attr.lit.body) = 1 /\ attr.lit.body[1] \in EnumPaths
             THEN Ok(Some(EnumTy))
             ELSE Err("parse path")
    ELSE IF attr.form = "List" /\ attr.path = "enumeration"
      THEN IF Len(attr.nested) = 1
             THEN IF attr.nested[1] \in EnumPaths
                    THEN Ok(Some(EnumTy))
                    ELSE Err("invalid enumeration attribute: item must be an identifier")
             ELSE Err("invalid enumeration attribute: only a single identifier is supported")
    ELSE Ok(None)

LengthDelimited == {"string", "bytes"}

\* Mutant: only string is treated as length delimited.
Ty_is_numeric_not_string(ty) == ty # "string"

Ty_is_numeric(ty) == ty # "string" /\ ty # "bytes"

Ty_module(ty) == IF ty = EnumTy THEN "int32" ELSE ty

\* ------------------------------------------- field/mod.rs helpers
\* set_option: the first value of a category is kept, a second one is the
\* duplicate error named by the caller.
set_option(option, value, message) ==
    IF IsSome(option) THEN Err(message) ELSE Ok(Some(value))

\* bool_attr(key, attr): the flag `key`, bare or with a bool value.
bool_attr(key, attr) ==
    IF attr.path # key THEN Ok(None)
    ELSE IF attr.form = "Path" THEN Ok(Some(TRUE))
    ELSE IF attr.form = "NameValue" /\ attr.lit.kind = "Bool"
      THEN Ok(Some(attr.lit.body = << "true" >>))
    ELSE Err("invalid attribute")

\* ------------------------------------------------- decimal numbers
\* Numbers are kept as decimal digit sequences, most significant first, so
\* that the limits of i32, u32, i64 and u64 are exact.
DigitToks == << "0", "1", "2", "3", "4", "5", "6", "7", "8", "9" >>

IsDigitTok(t) == \E i \in 1..Len(DigitToks) : DigitToks[i] = t

DigitVal(t) == (CHOOSE i \in 1..Len(DigitToks) : DigitToks[i] = t) - 1

RECURSIVE StripZeros(_)
StripZeros(d) ==
    IF Len(d) > 1 /\ d[1] = 0 THEN StripZeros(Tail(d)) ELSE d

\* a <= b for digit sequences without leading zeros.
NumLeq(a, b) ==
    \/ Len(a) < Len(b)
    \/ /\ Len(a) = Len(b)
       /\ \/ a = b
          \/ \E i \in 1..Len(a) :
                /\ a[i] < b[i]
                /\ \A j \in 1..(i - 1) : a[j] = b[j]

IsZero(d) == StripZeros(d) = << 0 >>

\* A number: sign, integer digits, fraction digits.
Num(neg, mag, frac) == [neg |-> neg, mag |-> mag, frac |-> frac]

NumZero == Num(FALSE, << 0 >>, << >>)

I32_MAX == << 2, 1, 4, 7, 4, 8, 3, 6, 4, 7 >>

\* The magnitude of i32::MIN.
I32_MIN_MAG == << 2, 1, 4, 7, 4, 8, 3, 6, 4, 8 >>

U32_MAX == << 4, 2, 9, 4, 9, 6, 7, 2, 9, 5 >>

I64_MAX == << 9, 2, 2, 3, 3, 7, 2, 0, 3, 6, 8, 5, 4, 7, 7, 5, 8, 0, 7 >>

I64_MIN_MAG == << 9, 2, 2, 3, 3, 7, 2, 0, 3, 6, 8, 5, 4, 7, 7, 5, 8, 0, 8 >>

U64_MAX == << 1, 8, 4, 4, 6, 7, 4, 4, 0, 7, 3, 7, 0, 9, 5, 5, 1, 6, 1, 5 >>

I128_MAX ==
    << 1, 7, 0, 1, 4, 1, 1, 8, 3, 4, 6, 0, 4, 6, 9, 2, 3, 1, 7, 3,
       1, 6, 8, 7, 3, 0, 3, 7, 1, 5, 8, 8, 4, 1, 0, 5, 7, 2, 7 >>

\* The value of a small unsigned digit sequence (tags).
RECURSIVE NatOf(_)
NatOf(d) == IF d = << >> THEN 0 ELSE 10 * NatOf(SubSeq(d, 1, Len(d) - 1)) + d[Len(d)]

\* LitInt / LitFloat digits: the body's tokens up to the first "." and after it.
DotAt(body) ==
    IF \E i \in 1..Len(body) : body[i] = "."
      THEN CHOOSE i \in 1..Len(body) : body[i] = "." /\ \A j \in 1..(i - 1) : body[j] # "."
      ELSE Len(body) + 1

IntDigits(body) == [i \in 1..(DotAt(body) - 1) |-> DigitVal(body[i])]

FracDigits(body) ==
    [i \in 1..(Len(body) - DotAt(body)) |-> DigitVal(body[DotAt(body) + i])]

\* LitInt::base10_parse into an integer type with the given maximum.
base10_parse_int(lit, max) ==
    LET d == StripZeros(IntDigits(lit.body))
    IN  IF NumLeq(d, max) THEN Ok(Num(FALSE, d, << >>)) ELSE Err("number too large")

\* base10_parse into f32 / f64.
base10_parse_float(lit) ==
    Ok(Num(FALSE, StripZeros(IntDigits(lit.body)), FracDigits(lit.body)))

\* Unary minus on a parsed number (in the wider type, so it cannot wrap).
Negate(n) == Num(~n.neg /\ ~(IsZero(n.mag) /\ n.frac = << >>), n.mag, n.frac)

\* Unary minus on a float: the sign bit flips, also on zero.
NegateF(n) == Num(~n.neg, n.mag, n.frac)

\* i32::try_from(i64) and i64::try_from(i128).
try_from(n, max, minMag) ==
    IF (n.neg /\ NumLeq(n.mag, minMag)) \/ (~n.neg /\ NumLeq(n.mag, max))
      THEN Ok(n) ELSE Err("out of range integral type conversion attempted")

\* tag_attr: the tag number of a tag annotation.
tag_attr(attr) ==
    IF attr.path # "tag" THEN Ok(None)
    ELSE IF attr.form = "NameValue" /\ attr.lit.kind = "Int"
      THEN Ok(Some(NatOf(IntDigits(attr.lit.body))))
    ELSE Err("invalid tag attribute")

\* amino_name_attr: the registered type name.
amino_name_attr(attr) ==
    IF attr.path # "amino_name" THEN Ok(None)
    ELSE IF attr.form = "NameValue" /\ attr.lit.kind = "Str" /\ Len(attr.lit.body) = 1
      THEN Ok(Some(attr.lit.body[1]))
    ELSE Err("invalid amino_name attribute")

Labels == {"optional", "required", "repeated"}

\* Label::from_attr: a bare optional / required / repeated.
Label_from_attr(attr) ==
    IF attr.form = "Path" /\ attr.path \in Labels THEN Some(attr.path) ELSE None

\* compute_disfix: the pure name -> (disambiguation bytes, prefix bytes)
\* service; a prefix is four bytes.
compute_disfix(name) ==
    [dis |-> << "d1", "d2", "d3" >>, pre |-> << "p1", "p2", "p3", "p4" >>]

\* ------------------------------------------------------ DefaultValue
\* DefaultValue::<variant>(val).
DV(variant, val) == [variant |-> variant, val |-> val]

DefaultValue_from_attr(attr) ==
    IF attr.path # "default" THEN Ok(None)
    ELSE IF attr.form = "NameValue" THEN Ok(Some(attr.lit))
    ELSE Err("invalid default value attribute")

DefaultValue_new(ty) ==
    CASE ty = "float" -> DV("F32", NumZero)
      [] ty = "double" -> DV("F64", NumZero)
      [] ty \in {"int32", "sint32", "sfixed32"} -> DV("I32", NumZero)
      [] ty \in {"int64", "sint64", "sfixed64"} -> DV("I64", NumZero)
      [] ty \in {"uint32", "fixed32"} -> DV("U32", NumZero)
      [] ty \in {"uint64", "fixed64"} -> DV("U64", NumZero)
      [] ty = "bool" -> DV("Bool", FALSE)
      [] ty = "string" -> DV("String", << >>)
      [] ty = "bytes" -> DV("Bytes", << >>)
      [] ty = EnumTy -> DV("Enumeration", << "E", "::", "default", "()" >>)

\* ---------------------------------------------- syn::parse_str::<Lit>
IntSuffixes == {"i8", "u8", "i32", "i64", "u32", "u64"}

FloatSuffixes == {"f32", "f64"}

\* str::trim: whitespace tokens dropped at both ends.
RECURSIVE TrimStart(_)
TrimStart(v) == IF Len(v) > 0 /\ v[1] = " " THEN TrimStart(Tail(v)) ELSE v

RECURSIVE TrimEnd(_)
TrimEnd(v) ==
    IF Len(v) > 0 /\ v[Len(v)] = " " THEN TrimEnd(SubSeq(v, 1, Len(v) - 1)) ELSE v

trim(v) == TrimEnd(TrimStart(v))

\* The digits and dot of a numeric text are well formed: digits, then at
\* most one "." followed by digits only.
IsNumberText(t) ==
    /\ Len(t) > 0
    /\ IsDigitTok(t[1])
    /\ \A i \in 1..Len(t) : IsDigitTok(t[i]) \/ (t[i] = "." /\ i = DotAt(t))

\* A literal's text without its suffix.
ParseUnsigned(t) ==
    LET n == Len(t)
        suf == IF n > 1 /\ t[n] \in (IntSuffixes \cup FloatSuffixes) THEN t[n] ELSE ""
        num == IF suf = "" THEN t ELSE SubSeq(t, 1, n - 1)
        isFloat == DotAt(num) <= Len(num) \/ suf \in FloatSuffixes
    IN  IF t = << "true" >> \/ t = << "false" >> THEN Ok(Lit("Bool", t, ""))
        ELSE IF ~IsNumberText(num) THEN Err("expected literal")
        ELSE IF DotAt(num) <= Len(num) /\ suf \in IntSuffixes THEN Err("expected literal")
        ELSE Ok(Lit(IF isFloat THEN "Float" ELSE "Int", num, suf))

\* parse_str::<Lit>: a bool, a number, or a number behind one minus sign,
\* whose digits then carry the sign.
parse_str_Lit(t) ==
    IF Len(t) > 1 /\ t[1] = "-"
      THEN LET r == ParseUnsigned(Tail(t))
           IN  IF r.ok /\ r.val.kind \in {"Int", "Float"}
                 THEN Ok(Lit(r.val.kind, << "-" >> \o r.val.body, r.val.suffix))
                 ELSE Err("expected literal")
      ELSE ParseUnsigned(t)

LitNeg(lit) == Len(lit.body) > 0 /\ lit.body[1] = "-"

LitAbs(lit) == IF LitNeg(lit) THEN Lit(lit.kind, Tail(lit.body), lit.suffix) ELSE lit

\* base10_parse::<i32 / i64>: signed digits within [-(minMag), max].
parse_signed(lit, max, minMag) ==
    LET p == base10_parse_int(LitAbs(lit), IF LitNeg(lit) THEN minMag ELSE max)
    IN  IF p.ok /\ LitNeg(lit) THEN Ok(Negate(p.val)) ELSE p

\* base10_parse::<u32 / u64>: a sign is not a digit.
parse_unsigned(lit, max) ==
    IF LitNeg(lit) THEN Err("invalid digit found in string")
    ELSE base10_parse_int(lit, max)

\* base10_parse::<f32 / f64>.
parse_float(lit) ==
    LET p == base10_parse_float(LitAbs(lit))
    IN  IF LitNeg(lit) THEN Ok(NegateF(p.val)) ELSE p

\* Result::map(DefaultValue::<variant>).
MapDV(variant, r) == IF r.ok THEN Ok(DV(variant, r.val)) ELSE r

\* Mutant: int64 counts as a 32-bit signed type.
is_i32_with_int64(ty) == ty \in {"int32", "sint32", "sfixed32", "int64"}

is_i32(ty) == ty \in {"int32", "sint32", "sfixed32"}

is_i64(ty) == ty \in {"int64", "sint64", "sfixed64"}

is_u32(ty) == ty \in {"uint32", "fixed32"}

is_u64(ty) == ty \in {"uint64", "fixed64"}

empty_or_is(expected, actual) == expected = actual \/ actual = ""

\* The identifiers Ident::new accepts as an enumeration variant.
VariantIdents == {"A", "B"}

\* The special float texts of a float (f = "f32") or double (f = "f64") default.
SpecialFloat(f, value) ==
    IF value = << "inf" >> THEN Some(DV("Path", << "::core::", f, "::INFINITY" >>))
    ELSE IF value = << "-", "inf" >> THEN Some(DV("Path", << "::core::", f, "::NEG_INFINITY" >>))
    ELSE IF value = << "nan" >> THEN Some(DV("Path", << "::core::", f, "::NAN" >>))
    ELSE None

\* Mutant: the int32 and int64 arms parse into the target width, without
\* widening.
NegativeArm_no_widening(ty, lit) ==
    IF lit.kind = "Int" /\ is_i32(ty) /\ empty_or_is("i32", lit.suffix)
      THEN Some(MapDV("I32", IF parse_signed(lit, I32_MAX, I32_MIN_MAG).ok
                               THEN Ok(Negate(parse_signed(lit, I32_MAX, I32_MIN_MAG).val))
                               ELSE parse_signed(lit, I32_MAX, I32_MIN_MAG)))
    ELSE IF lit.kind = "Int" /\ is_i64(ty) /\ empty_or_is("i64", lit.suffix)
      THEN Some(MapDV("I64", IF parse_signed(lit, I64_MAX, I64_MIN_MAG).ok
                               THEN Ok(Negate(parse_signed(lit, I64_MAX, I64_MIN_MAG).val))
                               ELSE parse_signed(lit, I64_MAX, I64_MIN_MAG)))
    ELSE IF lit.kind = "Float" /\ ty = "float" /\ empty_or_is("f32", lit.suffix)
      THEN Some(MapDV("F32", Ok(NegateF(parse_float(lit).val))))
    ELSE IF lit.kind = "Float" /\ ty = "double" /\ empty_or_is("f64", lit.suffix)
      THEN Some(MapDV("F64", Ok(NegateF(parse_float(lit).val))))
    ELSE IF lit.kind = "Int" /\ ty = "float" /\ lit.suffix = ""
      THEN Some(MapDV("F32", Ok(NegateF(parse_float(lit).val))))
    ELSE IF lit.kind = "Int" /\ ty = "double" /\ lit.suffix = ""
      THEN Some(MapDV("F64", Ok(NegateF(parse_float(lit).val))))
    ELSE None

\* The arms for a text that starts with "-": the rest parsed as a literal,
\* then negated in a wider type. None when no arm matches.
NegativeArm(ty, lit) ==
    IF lit.kind = "Int" /\ is_i32(ty) /\ empty_or_is("i32", lit.suffix)
      THEN LET p == parse_signed(lit, I64_MAX, I64_MIN_MAG)
           IN  Some(IF p.ok THEN MapDV("I32", try_from(Negate(p.val), I32_MAX, I32_MIN_MAG))
                    ELSE p)
    ELSE IF lit.kind = "Int" /\ is_i64(ty) /\ empty_or_is("i64", lit.suffix)
      THEN LET p == parse_signed(lit, I128_MAX, I128_MAX)
           IN  Some(IF p.ok THEN MapDV("I64", try_from(Negate(p.val), I64_MAX, I64_MIN_MAG))
                    ELSE p)
    ELSE IF lit.kind = "Float" /\ ty = "float" /\ empty_or_is("f32", lit.suffix)
      THEN Some(MapDV("F32", Ok(NegateF(parse_float(lit).val))))
    ELSE IF lit.kind = "Float" /\ ty = "double" /\ empty_or_is("f64", lit.suffix)
      THEN Some(MapDV("F64", Ok(NegateF(parse_float(lit).val))))
    ELSE IF lit.kind = "Int" /\ ty = "float" /\ lit.suffix = ""
      THEN Some(MapDV("F32", Ok(NegateF(parse_float(lit).val))))
    ELSE IF lit.kind = "Int" /\ ty = "double" /\ lit.suffix = ""
      THEN Some(MapDV("F64", Ok(NegateF(parse_float(lit).val))))
    ELSE None

\* The negative arms applied to the outcome of parsing what follows "-".
NegativeArmOf(ty, negLit) ==
    IF negLit.ok THEN NegativeArm(ty, negLit.val) ELSE None

RECURSIVE DefaultValue_from_lit(_, _)

\* Lines 641-736, the arm of a string literal on a type other than string:
\* value is the trimmed text, special the special float it names, negArm
\* the outcome of the negative arms, whole the text parsed as a literal.
DefaultValue_from_str(ty, value, special, negArm, whole) ==
    IF ty = EnumTy
      THEN IF Len(value) = 1 /\ value[1] \in VariantIdents
             THEN Ok(DV("Enumeration", << "E", "::", value[1] >>))
             ELSE Err("panic: not a valid Ident")
    ELSE IF IsSome(special) THEN Ok(Unwrap(special))
    ELSE IF IsSome(negArm) THEN Unwrap(negArm)
    ELSE IF whole.ok /\ whole.val.kind # "Str"
      THEN DefaultValue_from_lit(ty, whole.val)
    ELSE Err("invalid default value")

\* The text of a string literal, trimmed, handed to the arms above.
DefaultValue_from_text(ty, value) ==
    DefaultValue_from_str(ty, value,
        IF ty = "float" THEN SpecialFloat("f32", value)
        ELSE IF ty = "double" THEN SpecialFloat("f64", value)
        ELSE None,
        NegativeArmOf(ty, IF Len(value) > 0 /\ value[1] = "-"
                            THEN parse_str_Lit(Tail(value))
                            ELSE Err("no sign")),
        parse_str_Lit(value))

DefaultValue_from_lit(ty, lit) ==
    IF lit.kind = "Int" /\ is_i32(ty) /\ empty_or_is("i32", lit.suffix)
      THEN MapDV("I32", parse_signed(lit, I32_MAX, I32_MIN_MAG))
    ELSE IF lit.kind = "Int" /\ is_i64(ty) /\ empty_or_is("i64", lit.suffix)
      THEN MapDV("I64", parse_signed(lit, I64_MAX, I64_MIN_MAG))
    ELSE IF lit.kind = "Int" /\ is_u32(ty) /\ empty_or_is("u32", lit.suffix)
      THEN MapDV("U32", parse_unsigned(lit, U32_MAX))
    ELSE IF lit.kind = "Int" /\ is_u64(ty) /\ empty_or_is("u64", lit.suffix)
      THEN MapDV("U64", parse_unsigned(lit, U64_MAX))
    ELSE IF lit.kind = "Float" /\ ty = "float" /\ empty_or_is("f32", lit.suffix)
      THEN MapDV("F32", parse_float(lit))
    ELSE IF lit.kind = "Int" /\ ty = "float"
      THEN MapDV("F32", parse_float(lit))
    ELSE IF lit.kind = "Float" /\ ty = "double" /\ empty_or_is("f64", lit.suffix)
      THEN MapDV("F64", parse_float(lit))
    ELSE IF lit.kind = "Int" /\ ty = "double"
      THEN MapDV("F64", parse_float(lit))
    ELSE IF lit.kind = "Bool" /\ ty = "bool"
      THEN Ok(DV("Bool", lit.body = << "true" >>))
    ELSE IF lit.kind = "Str" /\ ty = "string"
      THEN Ok(DV("String", lit.body))
    ELSE IF lit.kind = "ByteStr" /\ ty = "bytes"
      THEN Ok(DV("Bytes", lit.body))
    ELSE IF lit.kind = "Str"
      THEN DefaultValue_from_text(ty, trim(lit.body))
    ELSE Err("invalid default value")

\* ---------------------------------------------------------- Field::new
\* Kind::Plain(default) ... Kind::Packed; Repeated and Packed carry no default.
Kind(k, default) == [k |-> k, default |-> default]

\* The locals of Field::new before the first annotation.
NoLocals ==
    [ty |-> None, label |-> None, packed |-> None, default |-> None,
     tag |-> None, amino_name |-> None, unknown_attrs |-> << >>]

\* One iteration of `for attr in attrs`: the locals after it, or the error
\* that leaves Field::new.
Field_new_loop(l, attr) ==
    LET t == Ty_from_attr(attr)
        p == bool_attr("packed", attr)
        g == tag_attr(attr)
        n == amino_name_attr(attr)
        lb == Label_from_attr(attr)
        d == DefaultValue_from_attr(attr)
        Set(field, opt, msg) ==
            LET r == set_option(l[field], Unwrap(opt), msg)
            IN  IF r.ok THEN Ok([l EXCEPT ![field] = r.val]) ELSE r
    IN  IF ~t.ok THEN t
        ELSE IF IsSome(t.val) THEN Set("ty", t.val, "duplicate type attributes")
        ELSE IF ~p.ok THEN p
        ELSE IF IsSome(p.val) THEN Set("packed", p.val, "duplicate packed attributes")
        ELSE IF ~g.ok THEN g
        ELSE IF IsSome(g.val) THEN Set("tag", g.val, "duplicate tag attributes")
        ELSE IF ~n.ok THEN n
        ELSE IF IsSome(n.val) THEN Set("amino_name", n.val, "duplicate amino_name attributes")
        ELSE IF IsSome(lb) THEN Set("label", lb, "duplicate label attributes")
        ELSE IF ~d.ok THEN d
        ELSE IF IsSome(d.val) THEN Set("default", d.val, "duplicate default attributes")
        ELSE Ok([l EXCEPT !.unknown_attrs = Append(@, attr)])

\* Mutant: the arm rejecting packed on a field that is not repeated is missing.
Field_kind_packed_anywhere(ty, label, packed, has_default, default) ==
    IF label = Some("repeated") /\ packed = Some(TRUE) /\ ~Ty_is_numeric(ty)
      THEN Err("packed attribute may only be applied to numeric types")
    ELSE IF label = Some("repeated") /\ has_default
      THEN Err("repeated fields may not have a default value")
    ELSE IF label = None THEN Ok(Kind("Plain", Some(default)))
    ELSE IF label = Some("optional") THEN Ok(Kind("Optional", Some(default)))
    ELSE IF label = Some("required") THEN Ok(Kind("Required", Some(default)))
    ELSE IF (IF IsSome(packed) THEN Unwrap(packed) ELSE Ty_is_numeric(ty))
      THEN Ok(Kind("Packed", None))
    ELSE Ok(Kind("Repeated", None))

\* Mutant: the repeated-with-default arm comes before the numeric-type arm.
Field_kind_default_arm_first(ty, label, packed, has_default, default) ==
    IF packed = Some(TRUE) /\ label # Some("repeated")
      THEN Err("packed attribute may only be applied to repeated fields")
    ELSE IF label = Some("repeated") /\ has_default
      THEN Err("repeated fields may not have a default value")
    ELSE IF label = Some("repeated") /\ packed = Some(TRUE) /\ ~Ty_is_numeric(ty)
      THEN Err("packed attribute may only be applied to numeric types")
    ELSE IF label = None THEN Ok(Kind("Plain", Some(default)))
    ELSE IF label = Some("optional") THEN Ok(Kind("Optional", Some(default)))
    ELSE IF label = Some("required") THEN Ok(Kind("Required", Some(default)))
    ELSE IF (IF IsSome(packed) THEN Unwrap(packed) ELSE Ty_is_numeric(ty))
      THEN Ok(Kind("Packed", None))
    ELSE Ok(Kind("Repeated", None))

\* The match on (label, packed, has_default) that picks the kind.
Field_kind(ty, label, packed, has_default, default) ==
    IF packed = Some(TRUE) /\ label # Some("repeated")
      THEN Err("packed attribute may only be applied to repeated fields")
    ELSE IF label = Some("repeated") /\ packed = Some(TRUE) /\ ~Ty_is_numeric(ty)
      THEN Err("packed attribute may only be applied to numeric types")
    ELSE IF label = Some("repeated") /\ has_default
      THEN Err("repeated fields may not have a default value")
    ELSE IF label = None THEN Ok(Kind("Plain", Some(default)))
    ELSE IF label = Some("optional") THEN Ok(Kind("Optional", Some(default)))
    ELSE IF label = Some("required") THEN Ok(Kind("Required", Some(default)))
    ELSE IF (IF IsSome(packed) THEN Unwrap(packed) ELSE Ty_is_numeric(ty))
      THEN Ok(Kind("Packed", None))
    ELSE Ok(Kind("Repeated", None))

\* Mutant: the inferred tag wins over the tag annotation.
Field_tag_inferred_first(tag, inferred_tag) ==
    IF IsSome(inferred_tag) THEN inferred_tag ELSE tag

\* tag.or(inferred_tag)
Field_tag(tag, inferred_tag) ==
    IF IsSome(tag) THEN tag ELSE inferred_tag

\* Lines 73-108 of Field::new: the tag is there and the default resolved;
\* kind is the outcome of the match on (label, packed, has_default).
Field_new_assemble(l, ty, tag, kind) ==
    IF ~kind.ok THEN kind
    ELSE Ok(Some([ty |-> ty, kind |-> kind.val, tag |-> tag,
                  amino_prefix |-> IF IsSome(l.amino_name)
                                     THEN compute_disfix(Unwrap(l.amino_name)).pre
                                     ELSE << >>]))

\* Lines 62-71 of Field::new: the tag, then the default, each with `?`.
Field_new_resolve(l, ty, tag, default) ==
    IF tag = None THEN Err("missing tag attribute")
    ELSE IF ~default.ok THEN default
    ELSE Field_new_assemble(l, ty, Unwrap(tag),
                            Field_kind(ty, l.label, l.packed, IsSome(l.default),
                                       default.val))

\* Field::new from line 62 on, for a member with a type marker and no
\* unknown annotation.
Field_new_typed(l, inferred_tag) ==
    Field_new_resolve(l, Unwrap(l.ty), Field_tag(l.tag, inferred_tag),
                      IF IsSome(l.default)
                        THEN DefaultValue_from_lit(Unwrap(l.ty), Unwrap(l.default))
                        ELSE Ok(DefaultValue_new(Unwrap(l.ty))))

\* Mutant: unknown annotations are reported before the type marker is
\* looked for.
Field_new_unknown_first(l, inferred_tag) ==
    IF Len(l.unknown_attrs) = 1 THEN Err("unknown attribute")
    ELSE IF Len(l.unknown_attrs) > 1 THEN Err("unknown attributes")
    ELSE IF l.ty = None THEN Ok(None)
    ELSE Field_new_typed(l, inferred_tag)

\* Field::new after the loop over the annotations.
Field_new(l, inferred_tag) ==
    IF l.ty = None THEN Ok(None)
    ELSE IF Len(l.unknown_attrs) = 1 THEN Err("unknown attribute")
    ELSE IF Len(l.unknown_attrs) > 1 THEN Err("unknown attributes")
    ELSE Field_new_typed(l, inferred_tag)

\* Mutant: a field labelled required is accepted as well.
Field_new_oneof_accepts_required(r) ==
    IF ~r.ok \/ r.val = None THEN r
    ELSE IF Unwrap(r.val).kind.k \in {"Plain", "Required"}
      THEN Ok(Some([Unwrap(r.val) EXCEPT
                      !.kind = Kind("Required", Unwrap(r.val).kind.default)]))
    ELSE IF Unwrap(r.val).kind.k = "Optional"
      THEN Err("invalid optional attribute on oneof field")
    ELSE Err("invalid repeated attribute on oneof field")

\* Lines 111-123 of Field::new_oneof: what it makes of r, the outcome of
\* Field::new(attrs, None).
Field_new_oneof_match(r) ==
    IF ~r.ok \/ r.val = None THEN r
    ELSE IF Unwrap(r.val).kind.k = "Plain"
      THEN Ok(Some([Unwrap(r.val) EXCEPT
                      !.kind = Kind("Required", Unwrap(r.val).kind.default)]))
    ELSE IF Unwrap(r.val).kind.k = "Optional"
      THEN Err("invalid optional attribute on oneof field")
    ELSE IF Unwrap(r.val).kind.k = "Required"
      THEN Err("invalid required attribute on oneof field")
    ELSE Err("invalid repeated attribute on oneof field")

\* Field::new_oneof after the loop over the annotations.
Field_new_oneof(l) == Field_new_oneof_match(Field_new(l, None))

\* ------------------------------------------------- emitted operations
\* The value of `super::#path as i32` for the enumeration of the model:
\* E::default() is 0, E::A is 1, E::B is 2.
EnumValue(tokens) ==
    IF tokens[3] = "A" THEN Num(FALSE, << 1 >>, << >>)
    ELSE IF tokens[3] = "B" THEN Num(FALSE, << 2 >>, << >>)
    ELSE NumZero

\* DefaultValue::typed: the value of the expression it emits.
DefaultValue_typed(d) ==
    IF d.variant = "Enumeration" THEN EnumValue(d.val) ELSE d.val

\* DefaultValue::owned: the value of the expression it emits.
DefaultValue_owned(d) == DefaultValue_typed(d)

\* The bytes the emitted encoded_len adds for a registered prefix.
PrefixAllowance == 5

\* A call `_prost::encoding::<module>::<fn>(...)` in emitted code; pre is
\* the prefix argument when one is passed, vec tells that the field passed
\* is a Vec of values.
Call(module, fn, pre, vec) == [module |-> module, fn |-> fn, pre |-> pre, vec |-> vec]

\* The primitive Field::encode selects.
Field_encode_fn(field) ==
    IF field.kind.k \in {"Plain", "Optional", "Required"}
      THEN IF Len(field.amino_prefix) > 0 THEN "encode_with_prefix" ELSE "encode"
    ELSE IF field.kind.k = "Repeated" THEN "encode_repeated"
    ELSE "encode_packed"

\* Mutant: a Plain field is written also when it holds its default.
Field_encode_no_omission(field) ==
    LET call(pre) == Call(Ty_module(field.ty), Field_encode_fn(field), pre,
                          field.kind.k \in {"Repeated", "Packed"})
    IN  IF field.kind.k = "Plain"
          THEN [guard |-> "always", default |-> None,
                call |-> call(IF Len(field.amino_prefix) > 0
                                THEN Some(field.amino_prefix) ELSE None)]
        ELSE IF field.kind.k = "Optional"
          THEN [guard |-> "if_some", default |-> None, call |-> call(None)]
        ELSE [guard |-> "always", default |-> None, call |-> call(None)]

\* Field::encode: the statement emitted. guard is the condition around the
\* call: "ne_default" (ident != default), "if_some" (if let Some(ref value))
\* or "always".
Field_encode(field) ==
    LET call(pre) == Call(Ty_module(field.ty), Field_encode_fn(field), pre,
                          field.kind.k \in {"Repeated", "Packed"})
    IN  IF field.kind.k = "Plain"
          THEN [guard |-> "ne_default",
                default |-> Some(DefaultValue_typed(Unwrap(field.kind.default))),
                call |-> call(IF Len(field.amino_prefix) > 0
                                THEN Some(field.amino_prefix) ELSE None)]
        ELSE IF field.kind.k = "Optional"
          THEN [guard |-> "if_some", default |-> None, call |-> call(None)]
        ELSE [guard |-> "always", default |-> None, call |-> call(None)]

\* Field::merge: the call emitted. target is "ident" (&mut ident) or
\* "get_or_insert_with" (ident.get_or_insert_with(Default::default)).
Field_merge(field) ==
    LET module == Ty_module(field.ty)
        merge_fn == IF field.kind.k \in {"Plain", "Optional", "Required"}
                      THEN "merge" ELSE "merge_repeated"
        is_registered == Len(field.amino_prefix) > 0
        decode_with_prefix == is_registered /\ module = "bytes"
        fn == IF decode_with_prefix THEN "merge_with_prefix" ELSE merge_fn
        vec == field.kind.k \in {"Repeated", "Packed"}
    IN  IF field.kind.k \in {"Plain", "Required", "Repeated", "Packed"}
          THEN [target |-> "ident",
                call |-> Call(module, fn,
                              IF decode_with_prefix THEN Some(field.amino_prefix) ELSE None,
                              vec)]
          ELSE [target |-> "get_or_insert_with", call |-> Call(module, fn, None, vec)]

\* Mutant: the prefix allowance is left out.
Field_encoded_len_no_allowance(field) ==
    LET fn == IF field.kind.k \in {"Plain", "Optional", "Required"} THEN "encoded_len"
              ELSE IF field.kind.k = "Repeated" THEN "encoded_len_repeated"
              ELSE "encoded_len_packed"
        call == Call(Ty_module(field.ty), fn, None, field.kind.k \in {"Repeated", "Packed"})
    IN  IF field.kind.k = "Plain"
          THEN [guard |-> "ne_default",
                default |-> Some(DefaultValue_typed(Unwrap(field.kind.default))),
                call |-> call, plus |-> 0]
        ELSE IF field.kind.k = "Optional"
          THEN [guard |-> "if_some", default |-> None, call |-> call, plus |-> 0]
        ELSE [guard |-> "always", default |-> None, call |-> call, plus |-> 0]

\* Field::encoded_len: the expression emitted; plus is what is added to
\* the primitive's length, 0 is the value where the guard fails.
Field_encoded_len(field) ==
    LET fn == IF field.kind.k \in {"Plain", "Optional", "Required"} THEN "encoded_len"
              ELSE IF field.kind.k = "Repeated" THEN "encoded_len_repeated"
              ELSE "encoded_len_packed"
        call == Call(Ty_module(field.ty), fn, None, field.kind.k \in {"Repeated", "Packed"})
        is_amino_prefixed == Len(field.amino_prefix) > 0
    IN  IF field.kind.k = "Plain"
          THEN [guard |-> "ne_default",
                default |-> Some(DefaultValue_typed(Unwrap(field.kind.default))),
                call |-> call,
                plus |-> IF is_amino_prefixed THEN PrefixAllowance ELSE 0]
        ELSE IF field.kind.k = "Optional"
          THEN [guard |-> "if_some", default |-> None, call |-> call, plus |-> 0]
        ELSE [guard |-> "always", default |-> None, call |-> call, plus |-> 0]

\* Field::default: the value of the expression emitted.
Field_default(field) ==
    IF field.kind.k \in {"Plain", "Required"}
      THEN DefaultValue_owned(Unwrap(field.kind.default))
    ELSE IF field.kind.k = "Optional" THEN None
    ELSE << >>

\* Field::clear: the statement emitted. op is "clear" (ident.clear()) or
\* "assign" (ident = rhs).
Field_clear(field) ==
    IF field.kind.k \in {"Plain", "Required"}
      THEN IF field.ty \in {"string", "bytes"}
             THEN [op |-> "clear", rhs |-> None]
             ELSE [op |-> "assign",
                   rhs |-> DefaultValue_typed(Unwrap(field.kind.default))]
    ELSE IF field.kind.k = "Optional" THEN [op |-> "assign", rhs |-> None]
    ELSE [op |-> "clear", rhs |-> None]

\* ----------------------------------------- the primitive codec library
\* The buffer is a sequence of items, each with its size n in bytes: a key
\* (tag and wire type), a value, or a packed run of values.
Key(tag) == [t |-> "key", v |-> tag, n |-> 1]

Val(module, v) ==
    [t |-> "val", v |-> v, n |-> IF module \in LengthDelimited THEN 1 + Len(v) ELSE 1]

PackedRun(vs) == [t |-> "packed", v |-> vs, n |-> 1 + Len(vs)]

RECURSIVE SumLen(_)
SumLen(items) == IF items = << >> THEN 0 ELSE items[1].n + SumLen(Tail(items))

RECURSIVE EachKeyVal(_, _, _)
EachKeyVal(module, tag, vs) ==
    IF vs = << >> THEN << >>
    ELSE << Key(tag), Val(module, vs[1]) >> \o EachKeyVal(module, tag, Tail(vs))

\* An invocation of a primitive: the call as emitted, with the tag and the
\* value it is run on.
Invocation(call, tag, value) == [call |-> call, tag |-> tag, value |-> value]

\* encode, encode_repeated and encode_packed of every module, and the
\* prefix-aware encode_with_prefix of the bytes module, which takes the
\* prefix and writes it right before the payload. The items written, or the
\* reason the call does not compile.
Prim_encode(inv) ==
    LET c == inv.call
    IN  IF c.fn = "encode_with_prefix"
          THEN IF c.module # "bytes" THEN Err("no encode_with_prefix in this module")
               ELSE IF c.pre = None THEN Err("encode_with_prefix takes a prefix")
               ELSE Ok(<< Key(inv.tag), Val(c.module, Unwrap(c.pre) \o inv.value) >>)
        ELSE IF c.pre # None THEN Err("this primitive takes no prefix")
        ELSE IF c.fn = "encode" THEN Ok(<< Key(inv.tag), Val(c.module, inv.value) >>)
        ELSE IF c.fn = "encode_repeated" THEN Ok(EachKeyVal(c.module, inv.tag, inv.value))
        ELSE IF inv.value = << >> THEN Ok(<< >>)
        ELSE Ok(<< Key(inv.tag), PackedRun(inv.value) >>)

\* encoded_len, encoded_len_repeated, encoded_len_packed: the size of what
\* encode, encode_repeated, encode_packed write.
Prim_encoded_len(inv) ==
    LET c == inv.call
    IN  IF c.fn = "encoded_len" THEN SumLen(<< Key(inv.tag), Val(c.module, inv.value) >>)
        ELSE IF c.fn = "encoded_len_repeated"
          THEN SumLen(EachKeyVal(c.module, inv.tag, inv.value))
        ELSE IF inv.value = << >> THEN 0
        ELSE SumLen(<< Key(inv.tag), PackedRun(inv.value) >>)

StartsWith(v, pre) == Len(v) >= Len(pre) /\ SubSeq(v, 1, Len(pre)) = pre

\* merge, merge_repeated of every module and merge_with_prefix of the bytes
\* module, which checks and consumes the prefix before the payload: the
\* field after merging one item into target, or the reason for the failure.
Prim_merge(c, target, item) ==
    IF c.fn = "merge_with_prefix"
      THEN IF c.pre = None THEN Err("merge_with_prefix takes a prefix")
           ELSE IF c.vec THEN Err("merge_with_prefix takes a single value")
           ELSE IF item.t = "val" /\ StartsWith(item.v, Unwrap(c.pre))
             THEN Ok(SubSeq(item.v, Len(Unwrap(c.pre)) + 1, Len(item.v)))
           ELSE Err("prefix mismatch")
    ELSE IF c.fn = "merge"
      THEN IF item.t = "val" THEN Ok(item.v) ELSE Err("invalid wire type")
    ELSE IF item.t = "val" THEN Ok(Append(target, item.v))
    ELSE Ok(target \o item.v)

\* Default::default() of the Rust type of a module's values.
RustDefault(module) ==
    IF module \in LengthDelimited THEN << >>
    ELSE IF module = "bool" THEN FALSE
    ELSE NumZero

\* ------------------------------------------ running the emitted code
\* The emitted encode statement run on the field value ident: the
\* primitive invocations it makes.
Exec_encode(code, tag, ident) ==
    IF code.guard = "ne_default"
      THEN IF ident # Unwrap(code.default)
             THEN << Invocation(code.call, tag, ident) >> ELSE << >>
    ELSE IF code.guard = "if_some"
      THEN IF IsSome(ident)
             THEN << Invocation(code.call, tag, Unwrap(ident)) >> ELSE << >>
    ELSE << Invocation(code.call, tag, ident) >>

\* What the invocations write to the buffer.
RECURSIVE WriteAll(_)
WriteAll(invs) ==
    IF invs = << >> THEN Ok(<< >>)
    ELSE LET a == Prim_encode(invs[1])
             b == WriteAll(Tail(invs))
         IN  IF ~a.ok THEN a ELSE IF ~b.ok THEN b ELSE Ok(a.val \o b.val)

\* The emitted encoded_len expression evaluated on ident.
Exec_encoded_len(code, tag, ident) ==
    IF code.guard = "ne_default"
      THEN IF ident # Unwrap(code.default)
             THEN Prim_encoded_len(Invocation(code.call, tag, ident)) + code.plus
             ELSE 0
    ELSE IF code.guard = "if_some"
      THEN IF IsSome(ident)
             THEN Prim_encoded_len(Invocation(code.call, tag, Unwrap(ident)))
             ELSE 0
    ELSE Prim_encoded_len(Invocation(code.call, tag, ident))

\* The emitted merge expression run on one item of the buffer.
Exec_merge(code, ident, item) ==
    IF code.target = "get_or_insert_with"
      THEN LET r == Prim_merge(code.call,
                               IF IsSome(ident) THEN Unwrap(ident)
                               ELSE RustDefault(code.call.module),
                               item)
           IN  IF r.ok THEN Ok(Some(r.val)) ELSE r
      ELSE Prim_merge(code.call, ident, item)

\* The emitted clear statement run on ident: String::clear and Vec::clear
\* leave the empty sequence, an assignment leaves its right-hand side.
Exec_clear(code, ident) ==
    IF code.op = "clear" THEN << >> ELSE code.rhs

\* The enclosing record's decode loop: for every key read, the field's
\* merge is run on the item that follows.
RECURSIVE Decode(_, _, _)
Decode(code, ident, buf) ==
    IF buf = << >> THEN Ok(ident)
    ELSE LET r == Exec_merge(code, ident, buf[2])
         IN  IF r.ok THEN Decode(code, r.val, SubSeq(buf, 3, Len(buf))) ELSE r

\* -------------------------------------------------------------- inputs
\* Tag numbers an annotation or the caller can supply.
Tags == 1..MaxTag

IntLit(n) == Lit("Int", << DigitToks[n + 1] >>, "")

StrLit(body) == Lit("Str", body, "")

\* The default literals of the annotations: an integer, an enumeration
\* variant name (also a string default), a byte string.
DefaultLits == {IntLit(5), StrLit(<< "A" >>), Lit("ByteStr", << "b" >>, "")}

\* The annotations a field can carry.
Attrs ==
    {MetaPath(p) : p \in ScalarNames \cup Labels \cup {"packed", "default", "foo"}}
      \cup {MetaNameValue("enumeration", StrLit(<< "E" >>))}
      \cup {MetaList("enumeration", n) : n \in {<< >>, << "E" >>, << "E", "E" >>}}
      \cup {MetaNameValue("packed", Lit("Bool", << b >>, "")) : b \in {"true", "false"}}
      \cup {MetaNameValue("tag", IntLit(n)) : n \in Tags}
      \cup {MetaNameValue("amino_name", StrLit(<< "reg" >>))}
      \cup {MetaNameValue("default", d) : d \in DefaultLits}

\* The values a field of the given type can hold: the type's zero and the
\* value its default annotation names.
ScalarValues(ty) ==
    IF ty = "string" THEN {<< >>, << "A" >>}
    ELSE IF ty = "bytes" THEN {<< >>, << "b" >>}
    ELSE IF ty = "bool" THEN {FALSE, TRUE}
    ELSE IF ty = EnumTy THEN {NumZero, Num(FALSE, << 1 >>, << >>)}
    ELSE {NumZero, Num(FALSE, << 5 >>, << >>)}

RECURSIVE SeqsUpTo(_, _)
SeqsUpTo(S, n) ==
    IF n = 0 THEN {<< >>}
    ELSE SeqsUpTo(S, n - 1) \cup {Append(q, x) : q \in {r \in SeqsUpTo(S, n - 1) : Len(r) = n - 1}, x \in S}

\* The values of the record member a descriptor describes.
FieldValues(field) ==
    IF field.kind.k \in {"Plain", "Required"} THEN ScalarValues(field.ty)
    ELSE IF field.kind.k = "Optional"
      THEN {None} \cup {Some(v) : v \in ScalarValues(field.ty)}
    ELSE SeqsUpTo(ScalarValues(field.ty), MaxItems)

\* The texts and literals handed to the default resolver on its own.
SmallDigits == {0, 5, 9}

DigitSeqs == SeqsUpTo(SmallDigits, MaxDigits) \ {<< >>}

\* The digit sequence of n + 1.
RECURSIVE Succ(_)
Succ(d) ==
    IF d = << >> THEN << 1 >>
    ELSE IF d[Len(d)] < 9 THEN [d EXCEPT ![Len(d)] = @ + 1]
    ELSE Succ(SubSeq(d, 1, Len(d) - 1)) \o << 0 >>

\* The limits of the integer types and their successors.
LimitDigits ==
    {I32_MAX, I32_MIN_MAG, Succ(I32_MIN_MAG), U32_MAX, Succ(U32_MAX),
     I64_MAX, I64_MIN_MAG, Succ(I64_MIN_MAG), U64_MAX, Succ(U64_MAX),
     I128_MAX, Succ(I128_MAX)}

\* The tokens of a digit sequence.
Toks(d) == [i \in 1..Len(d) |-> DigitToks[d[i] + 1]]

NumberTexts == {Toks(d) : d \in DigitSeqs \cup LimitDigits}

Suffixes == {""} \cup IntSuffixes \cup FloatSuffixes

\* A suffixed number as it is written inside a string: the suffix is the
\* last token.
Suffixed(t, suf) == IF suf = "" THEN t ELSE Append(t, suf)

SpecialTexts ==
    {<< w >> : w \in {"inf", "INF", "Inf", "nan", "NaN", "NAN"}}
      \cup {<< "-", w >> : w \in {"inf", "INF", "Inf"}}
      \cup {<< " ", "inf", " " >>, << " ", "NaN" >>}

ResolverTexts ==
    NumberTexts
      \cup {<< "-" >> \o t : t \in NumberTexts}
      \cup {Suffixed(<< "5" >>, suf) : suf \in Suffixes}
      \cup {<< "-" >> \o Suffixed(<< "5" >>, suf) : suf \in Suffixes}
      \cup {Suffixed(<< "5", ".", "0" >>, suf) : suf \in FloatSuffixes \cup {""}}
      \cup {<< "-" >> \o Suffixed(<< "5", ".", "0" >>, suf) : suf \in FloatSuffixes \cup {""}}
      \cup SpecialTexts
      \cup {<< >>, << "-" >>, << "A" >>, << "B" >>, << "true" >>, << " ", "-", "5", " " >>}

ResolverLits ==
    {StrLit(t) : t \in ResolverTexts}
      \cup {Lit("Int", t, "") : t \in NumberTexts}
      \cup {Lit("Int", << "5" >>, suf) : suf \in IntSuffixes}
      \cup {Lit("Float", << "5", ".", "0" >>, suf) : suf \in FloatSuffixes \cup {""}}
      \cup {Lit("Float", << "5" >>, suf) : suf \in FloatSuffixes}
      \cup {Lit("Bool", << b >>, "") : b \in {"true", "false"}}
      \cup {Lit("ByteStr", t, "") : t \in {<< >>, << "b" >>}}

\* --------------------------------------------------------------- state
VARIABLES
    entry,         \* the entry point called: "new" or "new_oneof"
    inferred_tag,  \* Field::new's inferred_tag argument
    locals,        \* Field::new's locals while it absorbs the annotations
    bailed_at,     \* the annotation at which the loop returned an error
    pc,            \* "loop": absorbing annotations; "bailed": returned an error
                   \* from inside the loop; "done": returned after the loop;
                   \* "encoded", "measured", "merged": the emitted encode,
                   \* encoded_len and merge have run; "cleared": the emitted
                   \* clear has run
    result,        \* the value returned
    value,         \* the value of the record member the operations run on
    calls,         \* the primitive invocations the emitted encode made
    buf,           \* the buffer after the emitted encode
    len,           \* the value of the emitted encoded_len
    decoded,       \* the member after the emitted merge has read buf back
    cleared,       \* the member after the emitted clear ("cleared")
    dty,           \* the type handed to the default resolver on its own
    dlit,          \* the literal handed to it, None without a default annotation
    dres           \* what the default resolver returned

vars == << entry, inferred_tag, locals, bailed_at, pc, result, value, calls, buf, len,
          decoded, cleared, dty, dlit, dres >>

resolver == << dty, dlit, dres >>

operations == << value, calls, buf, len, decoded, cleared >>

builder == << entry, inferred_tag, locals, bailed_at, result >>

Init ==
    /\ entry \in {"new", "new_oneof"}
    /\ inferred_tag \in (IF entry = "new" THEN {None} \cup {Some(t) : t \in Tags} ELSE {None})
    /\ locals = NoLocals
    /\ bailed_at = None
    /\ pc = "loop"
    /\ result = Err("not returned")
    /\ value = None
    /\ calls = << >>
    /\ buf = Err("not encoded")
    /\ len = 0
    /\ decoded = Err("not merged")
    /\ cleared = None
    /\ dty = "float"
    /\ dlit = None
    /\ dres = Err("not resolved")

\* Field::new or Field::new_oneof has returned.
Returned == pc # "loop"

\* The loop over the annotations completed.
LoopCompleted == pc \notin {"loop", "bailed"}

\* The call returned a descriptor.
FieldOk == Returned /\ result.ok /\ IsSome(result.val)

TheField == Unwrap(result.val)

\* The loop of Field::new takes the next annotation of the slice.
Absorb ==
    \E attr \in Attrs :
        LET r == Field_new_loop(locals, attr)
        IN  /\ pc = "loop"
            /\ IF r.ok
                 THEN /\ Len(r.val.unknown_attrs) <= MaxUnknown
                      /\ locals' = r.val
                      /\ UNCHANGED << pc, result, bailed_at >>
                 ELSE /\ pc' = "bailed"
                      /\ result' = r
                      /\ bailed_at' = Some(attr)
                      /\ UNCHANGED locals
            /\ UNCHANGED << entry, inferred_tag, value, calls, buf, len, decoded, cleared, resolver >>

\* The slice is exhausted: the rest of Field::new, inside new_oneof when
\* that is the entry point.
Finish ==
    /\ pc = "loop"
    /\ pc' = "done"
    /\ result' = IF entry = "new" THEN Field_new(locals, inferred_tag)
                 ELSE Field_new_oneof(locals)
    /\ UNCHANGED << entry, inferred_tag, locals, bailed_at, value, calls, buf, len, decoded,
                    cleared, resolver >>

\* The emitted encode runs on a value of the member.
Encode ==
    /\ pc = "done"
    /\ FieldOk
    /\ \E v \in FieldValues(TheField) :
          /\ value' = v
          /\ calls' = Exec_encode(Field_encode(TheField), TheField.tag, v)
          /\ buf' = WriteAll(calls')
    /\ pc' = "encoded"
    /\ UNCHANGED << builder, len, decoded, cleared, resolver >>

\* The emitted encoded_len is evaluated on the same value.
EncodedLen ==
    /\ pc = "encoded"
    /\ pc' = "measured"
    /\ len' = Exec_encoded_len(Field_encoded_len(TheField), TheField.tag, value)
    /\ UNCHANGED << builder, value, calls, buf, decoded, cleared, resolver >>

\* A fresh record, its member holding Field::default, decodes the buffer
\* with the emitted merge.
Merge ==
    /\ pc = "measured"
    /\ pc' = "merged"
    /\ decoded' = IF buf.ok
                    THEN Decode(Field_merge(TheField), Field_default(TheField), buf.val)
                    ELSE buf
    /\ UNCHANGED << builder, value, calls, buf, len, cleared, resolver >>

\* The emitted clear runs on a value of the member.
Clear ==
    /\ pc = "done"
    /\ FieldOk
    /\ \E v \in FieldValues(TheField) :
          /\ value' = v
          /\ cleared' = Exec_clear(Field_clear(TheField), v)
    /\ pc' = "cleared"
    /\ UNCHANGED << builder, calls, buf, len, decoded, resolver >>

Next == Absorb \/ Finish \/ Encode \/ EncodedLen \/ Merge \/ Clear

\* ------------------------------------------- the default resolver alone
\* Lines 67-71 of Field::new on a type and an optional default literal.
InitResolver ==
    /\ dty \in Ty
    /\ dlit \in {None} \cup {Some(l) : l \in ResolverLits}
    /\ dres = Err("not resolved")
    /\ pc = "resolve"
    /\ entry = "new"
    /\ inferred_tag = None
    /\ locals = NoLocals
    /\ bailed_at = None
    /\ result = Err("not returned")
    /\ value = None
    /\ calls = << >>
    /\ buf = Err("not encoded")
    /\ len = 0
    /\ decoded = Err("not merged")
    /\ cleared = None

\* Some(lit) => DefaultValue::from_lit(&ty, lit)?
ResolveLit ==
    /\ pc = "resolve"
    /\ IsSome(dlit)
    /\ dres' = DefaultValue_from_lit(dty, Unwrap(dlit))
    /\ pc' = "resolved"
    /\ UNCHANGED << builder, operations, dty, dlit >>

\* None => DefaultValue::new(&ty)
ResolveNew ==
    /\ pc = "resolve"
    /\ dlit = None
    /\ dres' = Ok(DefaultValue_new(dty))
    /\ pc' = "resolved"
    /\ UNCHANGED << builder, operations, dty, dlit >>

NextResolver == ResolveLit \/ ResolveNew

SpecResolver == InitResolver /\ [][NextResolver]_vars

Spec == Init /\ [][Next]_vars

\* ============================================================== claims
RepeatedWithDefault == "repeated fields may not have a default value"

MissingTag == "missing tag attribute"

\* The errors of an annotation that is not well formed.
MalformedErrors ==
    {"invalid enumeration attribute: item must be an identifier",
     "invalid enumeration attribute: only a single identifier is supported",
     "invalid default value attribute", "invalid attribute",
     "invalid tag attribute", "invalid amino_name attribute", "parse path"}

InvalidOneofField ==
    {"invalid optional attribute on oneof field",
     "invalid required attribute on oneof field",
     "invalid repeated attribute on oneof field"}

RepeatedDefaultCall ==
    /\ Returned /\ entry = "new"
    /\ IsSome(locals.ty) /\ locals.label = Some("repeated") /\ IsSome(locals.default)

\* C3 as stated: every call with a type marker, a repeated label and an
\* explicit default fails with the RepeatedWithDefault error, whatever the
\* packed flag, the type and the default literal are. Stated here for the
\* calls whose annotations are all known, well formed and not duplicated
\* and that have a tag.
C3_Original ==
    (RepeatedDefaultCall /\ LoopCompleted /\ locals.unknown_attrs = << >>
       /\ (IsSome(locals.tag) \/ IsSome(inferred_tag)))
      => (~result.ok /\ result.err = RepeatedWithDefault)

\* C3 amended: such a call always fails; the error is RepeatedWithDefault
\* exactly when the loop over the annotations completed (none duplicated or
\* malformed), none is unknown, a tag is available, the default literal
\* resolves for the type, and packed=true does not meet string or bytes.
C3_RepeatedDefaultFails ==
    RepeatedDefaultCall =>
        /\ ~result.ok
        /\ result.err = RepeatedWithDefault <=>
              /\ LoopCompleted
              /\ locals.unknown_attrs = << >>
              /\ IsSome(locals.tag) \/ IsSome(inferred_tag)
              /\ DefaultValue_from_lit(Unwrap(locals.ty), Unwrap(locals.default)).ok
              /\ ~(locals.packed = Some(TRUE) /\ Unwrap(locals.ty) \in LengthDelimited)

\* A repeated field with packed=true and a default was refused for its default.
C3_Witness ==
    /\ RepeatedDefaultCall
    /\ locals.packed = Some(TRUE)
    /\ result.err = RepeatedWithDefault

\* C4 as stated: without a type marker (well-formed annotations only)
\* Field::new returns Ok(None) and never an error, whatever else is present.
C4_Original ==
    (Returned /\ entry = "new" /\ locals.ty = None
       /\ result.err \notin MalformedErrors) => result = Ok(None)

\* C4 amended: when no annotation is a type marker and the loop over the
\* annotations completes (no category twice, none malformed), Field::new
\* returns Ok(None), whatever unknown, tag, packed, label, default and
\* amino_name annotations are present and whether or not a tag is available.
C4_NoTypeMarkerIsNone ==
    (LoopCompleted /\ entry = "new" /\ locals.ty = None) => result = Ok(None)

\* No type marker, no tag at all, but unknown, packed and default
\* annotations: Ok(None).
C4_Witness ==
    /\ LoopCompleted /\ entry = "new" /\ locals.ty = None
    /\ locals.unknown_attrs # << >> /\ locals.packed = Some(TRUE)
    /\ IsSome(locals.default) /\ locals.tag = None /\ inferred_tag = None
    /\ result = Ok(None)

\* The tag of an accepted descriptor: the annotation's, else the inferred one.
C5_TagChoice ==
    (FieldOk /\ entry = "new") =>
        TheField.tag = (IF IsSome(locals.tag) THEN Unwrap(locals.tag)
                        ELSE Unwrap(inferred_tag))

\* C5 as stated: the tag is the explicit one, else the inferred one; with a
\* type marker, no unknown annotation and no tag of either kind, Field::new
\* fails with MissingTag (well-formed annotations only).
C5_Original ==
    /\ C5_TagChoice
    /\ (Returned /\ entry = "new" /\ IsSome(locals.ty) /\ locals.unknown_attrs = << >>
          /\ locals.tag = None /\ inferred_tag = None
          /\ result.err \notin MalformedErrors)
         => (~result.ok /\ result.err = MissingTag)

\* C5 amended: the same, the MissingTag error being promised only when the
\* loop over the annotations completed (no category twice, none malformed).
C5_EffectiveTag ==
    /\ C5_TagChoice
    /\ (LoopCompleted /\ entry = "new" /\ IsSome(locals.ty) /\ locals.unknown_attrs = << >>
          /\ locals.tag = None /\ inferred_tag = None)
         => (~result.ok /\ result.err = MissingTag)

\* An accepted field whose tag annotation differs from the inferred tag.
C5_Witness ==
    /\ FieldOk /\ entry = "new"
    /\ IsSome(locals.tag) /\ IsSome(inferred_tag) /\ locals.tag # inferred_tag
    /\ TheField.tag = Unwrap(locals.tag)

\* C6: new_oneof yields a descriptor exactly when Field::new without an
\* inferred tag yields kind Plain, and it is that descriptor with kind
\* Required and the same default, type, tag and prefix; when Field::new
\* yields Optional, Repeated or Packed, new_oneof fails with InvalidOneofField.
C6_OneofPromotesPlain ==
    (LoopCompleted /\ entry = "new_oneof") =>
        LET r == Field_new(locals, None)
            plain == r.ok /\ IsSome(r.val) /\ Unwrap(r.val).kind.k = "Plain"
        IN  /\ (result.ok /\ IsSome(result.val)) <=> plain
            /\ plain =>
                 /\ TheField.kind = Kind("Required", Unwrap(r.val).kind.default)
                 /\ TheField.ty = Unwrap(r.val).ty
                 /\ TheField.tag = Unwrap(r.val).tag
                 /\ TheField.amino_prefix = Unwrap(r.val).amino_prefix
            /\ (r.ok /\ IsSome(r.val)
                  /\ Unwrap(r.val).kind.k \in {"Optional", "Repeated", "Packed"})
                 => (~result.ok /\ result.err \in InvalidOneofField)

\* new_oneof promoted a Plain field that carries an explicit default.
C6_Witness ==
    /\ LoopCompleted /\ entry = "new_oneof"
    /\ result.ok /\ IsSome(result.val)
    /\ IsSome(locals.default) /\ IsSome(locals.amino_name)
    /\ TheField.kind.k = "Required"

\* The emitted encode has run on `value`.
Encoded == pc \in {"encoded", "measured", "merged"}

\* The emitted encoded_len has been evaluated on `value`.
Measured == pc \in {"measured", "merged"}

\* The resolved default of a Plain, Optional or Required field.
ResolvedDefault == DefaultValue_typed(Unwrap(TheField.kind.default))

Prefixed == TheField.amino_prefix # << >>

\* C7: decoding with the emitted merge what the emitted encode wrote for a
\* value gives the value back, for every kind, type and prefix setting.
C7_RoundTrip ==
    (pc = "merged") => (decoded.ok /\ decoded.val = value)

\* C8: a Plain field is not written when it holds its resolved default;
\* otherwise the encode primitive is invoked once with the tag and the
\* value, the prefix-aware one with the prefix bytes exactly when the prefix
\* is non-empty. Required, Repeated and Packed fields invoke their
\* primitive once whatever the value.
C8_EncodeInvocations ==
    Encoded =>
        /\ (TheField.kind.k = "Plain" /\ value = ResolvedDefault) => calls = << >>
        /\ (TheField.kind.k = "Plain" /\ value # ResolvedDefault) =>
              /\ Len(calls) = 1
              /\ calls[1].tag = TheField.tag
              /\ calls[1].value = value
              /\ calls[1].call.module = Ty_module(TheField.ty)
              /\ IF Prefixed
                   THEN /\ calls[1].call.fn = "encode_with_prefix"
                        /\ calls[1].call.pre = Some(TheField.amino_prefix)
                   ELSE /\ calls[1].call.fn = "encode"
                        /\ calls[1].call.pre = None
        /\ (TheField.kind.k \in {"Required", "Repeated", "Packed"}) =>
              /\ Len(calls) = 1
              /\ calls[1].tag = TheField.tag
              /\ calls[1].value = value
              /\ TheField.kind.k = "Repeated" => calls[1].call.fn = "encode_repeated"
              /\ TheField.kind.k = "Packed" => calls[1].call.fn = "encode_packed"
              /\ TheField.kind.k = "Required" =>
                    calls[1].call.fn \in {"encode", "encode_with_prefix"}

\* A prefixed Plain field holding another value than its default was
\* written with the prefix bytes.
C8_Witness ==
    /\ Encoded /\ TheField.kind.k = "Plain" /\ Prefixed
    /\ IsSome(locals.default)
    /\ value # ResolvedDefault
    /\ Len(calls) = 1 /\ calls[1].call.pre = Some(TheField.amino_prefix)

\* The length the primitive `fn` of the field's module gives for a value.
PrimitiveLen(fn, v) ==
    Prim_encoded_len(Invocation(
        Call(Ty_module(TheField.ty), fn, None, TheField.kind.k \in {"Repeated", "Packed"}),
        TheField.tag, v))

\* C9: the emitted encoded length of a Plain field is 0 on the resolved
\* default, else the primitive length, plus exactly 5 when the prefix is
\* non-empty; of an Optional field 0 when absent, else the primitive
\* length; of Required, Repeated and Packed fields the length of
\* encoded_len, encoded_len_repeated, encoded_len_packed, nothing added.
C9_EncodedLen ==
    Measured =>
        len = (IF TheField.kind.k = "Plain"
                 THEN IF value = ResolvedDefault THEN 0
                      ELSE IF Prefixed THEN PrimitiveLen("encoded_len", value) + 5
                      ELSE PrimitiveLen("encoded_len", value)
               ELSE IF TheField.kind.k = "Optional"
                 THEN IF value = None THEN 0
                      ELSE PrimitiveLen("encoded_len", Unwrap(value))
               ELSE IF TheField.kind.k = "Required"
                 THEN PrimitiveLen("encoded_len", value)
               ELSE IF TheField.kind.k = "Repeated"
                 THEN PrimitiveLen("encoded_len_repeated", value)
               ELSE PrimitiveLen("encoded_len_packed", value))

\* A prefixed Plain field off its default measured the primitive length
\* plus 5.
C9_Witness ==
    /\ Measured /\ TheField.kind.k = "Plain" /\ Prefixed
    /\ value # ResolvedDefault
    /\ len = PrimitiveLen("encoded_len", value) + 5

\* C10: an Optional field is written only when a value is present, and
\* always through the unprefixed encode primitive, whether or not the
\* registered prefix is empty.
C10_OptionalUnprefixed ==
    (Encoded /\ TheField.kind.k = "Optional") =>
        /\ (calls # << >>) <=> IsSome(value)
        /\ \A i \in 1..Len(calls) :
              calls[i].call.fn = "encode" /\ calls[i].call.pre = None

\* C11: after the emitted clear a Plain or Required field holds what the
\* default accessor returns, whatever its type and default; an Optional
\* field is absent; a Repeated or Packed field is the empty sequence.
C11_ClearGivesDefault ==
    (pc = "cleared") =>
        IF TheField.kind.k \in {"Plain", "Required"}
          THEN cleared = Field_default(TheField)
        ELSE IF TheField.kind.k = "Optional" THEN cleared = None
        ELSE cleared = << >>

\* The default resolver has returned.
Resolved == pc = "resolved"

\* The default is a quoted "-N", N a run of decimal digits without suffix.
MinusDigits ==
    /\ IsSome(dlit)
    /\ Unwrap(dlit).kind = "Str"
    /\ Len(Unwrap(dlit).body) >= 2
    /\ Unwrap(dlit).body[1] = "-"
    /\ \A i \in 2..Len(Unwrap(dlit).body) : IsDigitTok(Unwrap(dlit).body[i])

\* The digits of N, and the number -N.
TheDigits == StripZeros(IntDigits(Tail(Unwrap(dlit).body)))

MinusN == Num(~IsZero(TheDigits), TheDigits, << >>)

\* C12: for an int32-family type a quoted "-N" resolves to I32(-N) exactly
\* when N <= 2147483648 and fails above; for an int64-family type to
\* I64(-N) exactly when N <= 9223372036854775808 and fails above. The value
\* is -N itself, never a wrapped one.
C12_NegativeLimits ==
    (Resolved /\ MinusDigits) =>
        /\ is_i32(dty) =>
              IF NumLeq(TheDigits, I32_MIN_MAG)
                THEN dres.ok /\ dres.val = DV("I32", MinusN)
                ELSE ~dres.ok
        /\ is_i64(dty) =>
              IF NumLeq(TheDigits, I64_MIN_MAG)
                THEN dres.ok /\ dres.val = DV("I64", MinusN)
                ELSE ~dres.ok

\* "-2147483648" on an int32 field resolved to i32::MIN.
C12_Witness ==
    /\ Resolved
    /\ dty = "int32"
    /\ dlit = Some(StrLit(<< "-" >> \o Toks(I32_MIN_MAG)))
    /\ dres.ok
    /\ dres.val = DV("I32", Num(TRUE, I32_MIN_MAG, << >>))

\* str::to_lowercase on the word tokens of the model.
LowerCase(tok) ==
    IF tok \in {"inf", "INF", "Inf"} THEN "inf"
    ELSE IF tok \in {"nan", "NaN", "NAN"} THEN "nan"
    ELSE tok

\* The trimmed text of a quoted default, in lower case.
LoweredText ==
    [i \in 1..Len(trim(Unwrap(dlit).body)) |-> LowerCase(trim(Unwrap(dlit).body)[i])]

\* The constant a special float text names.
SpecialConstant ==
    IF LoweredText = << "inf" >> THEN "::INFINITY"
    ELSE IF LoweredText = << "-", "inf" >> THEN "::NEG_INFINITY"
    ELSE "::NAN"

\* C13: on a float or double field a quoted default whose trimmed text is
\* "inf", "-inf" or "nan" in any letter case resolves, without error, to
\* the path of the type's INFINITY, NEG_INFINITY or NAN constant.
C13_SpecialFloatsAnyCase ==
    (/\ Resolved
     /\ dty \in {"float", "double"}
     /\ IsSome(dlit)
     /\ Unwrap(dlit).kind = "Str"
     /\ LoweredText \in {<< "inf" >>, << "-", "inf" >>, << "nan" >>}) =>
        /\ dres.ok
        /\ dres.val = DV("Path", << "::core::",
                                    IF dty = "float" THEN "f32" ELSE "f64",
                                    SpecialConstant >>)

\* The suffix that names the representation of a numeric type.
OwnSuffix(ty) ==
    IF is_i32(ty) THEN "i32"
    ELSE IF is_i64(ty) THEN "i64"
    ELSE IF is_u32(ty) THEN "u32"
    ELSE IF is_u64(ty) THEN "u64"
    ELSE IF ty = "float" THEN "f32"
    ELSE "f64"

\* The default is a numeric literal given directly.
DirectNumber == IsSome(dlit) /\ Unwrap(dlit).kind \in {"Int", "Float"}

\* The default is a quoted "-" followed by a number, suffixed or not.
QuotedNegative ==
    /\ IsSome(dlit)
    /\ Unwrap(dlit).kind = "Str"
    /\ Len(trim(Unwrap(dlit).body)) >= 2
    /\ trim(Unwrap(dlit).body)[1] = "-"
    /\ ParseUnsigned(Tail(trim(Unwrap(dlit).body))).ok
    /\ ParseUnsigned(Tail(trim(Unwrap(dlit).body))).val.kind \in {"Int", "Float"}

\* The suffix the numeric literal carries, "" when it has none.
GivenSuffix ==
    IF DirectNumber THEN Unwrap(dlit).suffix
    ELSE ParseUnsigned(Tail(trim(Unwrap(dlit).body))).val.suffix

\* C14: a numeric literal, given directly or quoted behind a minus sign, is
\* accepted for a numeric type only when it has no suffix or the suffix of
\* the type's own representation.
C14_SuffixMatches ==
    (/\ Resolved
     /\ dty \in ScalarNames \ {"bool", "string", "bytes"}
     /\ DirectNumber \/ QuotedNegative
     /\ dres.ok) =>
        GivenSuffix \in {"", OwnSuffix(dty)}

\* C15: the emitted merge calls merge_with_prefix, passing the prefix
\* bytes, exactly when the prefix is non-empty and the module is bytes, for
\* every kind (so also for an Optional bytes field); otherwise it calls
\* merge for Plain, Optional and Required and merge_repeated for Repeated
\* and Packed, without a prefix. A repeated field is merged as a Vec.
C15_MergeSelection ==
    FieldOk =>
        /\ IF Prefixed /\ Ty_module(TheField.ty) = "bytes"
             THEN /\ Field_merge(TheField).call.fn = "merge_with_prefix"
                  /\ Field_merge(TheField).call.pre = Some(TheField.amino_prefix)
             ELSE /\ Field_merge(TheField).call.pre = None
                  /\ Field_merge(TheField).call.fn =
                        (IF TheField.kind.k \in {"Plain", "Optional", "Required"}
                           THEN "merge" ELSE "merge_repeated")
        /\ Field_merge(TheField).call.module = Ty_module(TheField.ty)
        /\ Field_merge(TheField).call.vec = (TheField.kind.k \in {"Repeated", "Packed"})

\* The variant of the resolved default, and the float width a Path names.
TheVariant == dres.val.variant

PathWidth == dres.val.val[2]

\* C16: a resolved default has the variant of the field's type: I32 for
\* int32, sint32, sfixed32 and no other; I64 for int64, sint64, sfixed64;
\* U32 for uint32, fixed32; U64 for uint64, fixed64; F32 or a Path of an
\* f32 constant for float; F64 or a Path of an f64 constant for double;
\* Bool, String, Bytes, Enumeration for bool, string, bytes, enumerations.
\* Without a literal the value is the type's zero: 0, false, empty, or the
\* enumeration's default().
C16_VariantMatchesType ==
    (Resolved /\ dres.ok) =>
        /\ (TheVariant = "I32") <=> (dty \in {"int32", "sint32", "sfixed32"})
        /\ (TheVariant = "I64") <=> (dty \in {"int64", "sint64", "sfixed64"})
        /\ (TheVariant = "U32") <=> (dty \in {"uint32", "fixed32"})
        /\ (TheVariant = "U64") <=> (dty \in {"uint64", "fixed64"})
        /\ (TheVariant = "F32" \/ (TheVariant = "Path" /\ PathWidth = "f32"))
              <=> (dty = "float")
        /\ (TheVariant = "F64" \/ (TheVariant = "Path" /\ PathWidth = "f64"))
              <=> (dty = "double")
        /\ (TheVariant = "Bool") <=> (dty = "bool")
        /\ (TheVariant = "String") <=> (dty = "string")
        /\ (TheVariant = "Bytes") <=> (dty = "bytes")
        /\ (TheVariant = "Enumeration") <=> (dty = EnumTy)
        /\ (dlit = None) =>
              IF dty = "bool" THEN dres.val.val = FALSE
              ELSE IF dty \in {"string", "bytes"} THEN dres.val.val = << >>
              ELSE IF dty = EnumTy
                THEN dres.val.val = << "E", "::", "default", "()" >>
              ELSE dres.val.val = NumZero

\* A quoted "-inf" on a double field resolved to a Path of an f64 constant.
C16_Witness ==
    /\ Resolved
    /\ dty = "double"
    /\ dlit = Some(StrLit(<< "-", "inf" >>))
    /\ dres.ok
    /\ TheVariant = "Path"
    /\ PathWidth = "f64"

\* The length primitive that measures what an encode primitive writes.
LenFnOf(fn) ==
    IF fn = "encode_repeated" THEN "encoded_len_repeated"
    ELSE IF fn = "encode_packed" THEN "encoded_len_packed"
    ELSE "encoded_len"

\* The bytes the emitted encode wrote: those of the plain primitive, and
\* the prefix allowance on top when the prefix-aware primitive was selected.
BytesWritten ==
    IF calls = << >> THEN 0
    ELSE PrimitiveLen(LenFnOf(calls[1].call.fn), calls[1].value)
           + (IF calls[1].call.fn = "encode_with_prefix" THEN PrefixAllowance ELSE 0)

\* C17: for every descriptor and value the emitted encoded length is the
\* number of bytes the emitted encode writes; it includes the prefix
\* allowance whenever encode selects the prefix-aware primitive and is 0
\* whenever encode writes nothing.
C17_LenMatchesEncode ==
    Measured => (len = BytesWritten)
====
